---- MODULE Spec2Model ----
(***************************************************************************)
(* A model of src/app.py: a Gradio chat front end that forwards messages   *)
(* and uploaded documents to a chat-completion provider and keeps the      *)
(* conversation in a per-session list (gr.State).                          *)
(*                                                                         *)
(* Text is modelled as a sequence of tokens (strings).  A fixed literal of *)
(* the source is one token, a character of a file's content or of a file   *)
(* name is one token, and an f-string is the concatenation (\o) of its     *)
(* parts.  The token count of a text is therefore never larger than its    *)
(* character count, and equals it for file contents.                       *)
(***************************************************************************)
EXTENDS Integers, Sequences, FiniteSets, TLC

VARIABLES
    state,      \* gr.State: the session's conversation, a list of (user, bot) pairs
    chatbot,    \* gr.Chatbot: the visible transcript
    calls,      \* the provider calls made by the handler that ran last
    last,       \* the handler that ran last, with its inputs
    out,        \* the value that handler wrote to its text output component
    heap,       \* concurrent runs: list objects, by identity
    store,      \* concurrent runs: the identity of the list gr.State holds
    respondJob, \* concurrent runs: the respond handler in flight, if any
    uploadJob   \* concurrent runs: the process_file handler in flight, if any

vars == <<state, chatbot, calls, last, out, heap, store, respondJob, uploadJob>>

seqVars == <<state, chatbot, calls, last, out>>
concVars == <<heap, store, respondJob, uploadJob>>

-----------------------------------------------------------------------------
(* Bounds of the model *)

MaxTurns == 3        \* turns a session's conversation grows to
MaxBatch == 1        \* files of one upload in a session
UploadBatch == 3     \* files of one upload, where batches are what is checked
UploadHistory == 1   \* turns already in the conversation when such a batch arrives
ExtractTurns == 2    \* turns of a conversation, where extraction is what is checked
ConcTurns == 2       \* turns of a list, where handlers overlap
MaxLists == 2        \* lists a session with overlapping handlers creates

(* Program constants *)

ExcerptLimit == 3000
HeadRows == 5
PreviewLimit == 500
PreviewRows == 3

-----------------------------------------------------------------------------
(* Text helpers *)

Min(a, b) == IF a <= b THEN a ELSE b

\* s[:n] of Python, for n >= 0
Prefix(s, n) == SubSeq(s, 1, Min(Len(s), n))

\* str.endswith
EndsWith(s, suffix) ==
    /\ Len(s) >= Len(suffix)
    /\ SubSeq(s, Len(s) - Len(suffix) + 1, Len(s)) = suffix

\* sep.join(parts), joined by halves
RECURSIVE Join(_, _)
Join(parts, sep) ==
    IF Len(parts) = 0 THEN <<>>
    ELSE IF Len(parts) = 1 THEN parts[1]
    ELSE LET half == Len(parts) \div 2
         IN Join(SubSeq(parts, 1, half), sep) \o sep
            \o Join(SubSeq(parts, half + 1, Len(parts)), sep)

\* the characters of a document: the i-th character is the token of i
Chars(from, n) == [i \in 1..n |-> ToString(from + i - 1)]

-----------------------------------------------------------------------------
(* get_system_prompt *)

\* the (mood, length) pairs drawn from the dropdown and the slider
Personas == { <<"Friendly", 2>>, <<"Humorous", 3>> }

Tone(mood) ==
    CASE mood = "Friendly" -> "You are a helpful and friendly assistant."
      [] mood = "Professional" -> "You are a formal and knowledgeable assistant."
      [] mood = "Humorous" -> "You are a witty and engaging assistant."
      [] OTHER -> "You are a helpful assistant."

Detail(length) ==
    CASE length = 1 -> <<"Give short and concise answers.">>
      [] length = 2 -> <<"Give balanced and informative answers.">>
      [] length = 3 -> <<"Give detailed and elaborate explanations.">>
      [] OTHER -> <<>>

get_system_prompt(mood, length) == <<Tone(mood), " ">> \o Detail(length)

-----------------------------------------------------------------------------
(* query_openai *)

OPENAI_MODEL == "gpt-3.5-turbo-16k"

Message(role, content) == [role |-> role, content |-> content]

\* a history cut to its most recent turn
BuildMessagesLastTurn(message, chat_history, mood, length) ==
    <<Message("system", get_system_prompt(mood, length))>>
    \o (IF Len(chat_history) = 0 THEN <<>>
        ELSE << Message("user", chat_history[Len(chat_history)][1]),
                Message("assistant", chat_history[Len(chat_history)][2]) >>)
    \o <<Message("user", message)>>

\* lines 36-43: the system message, each prior turn as a user and an
\* assistant message, then the new user message
BuildMessages(message, chat_history, mood, length) ==
    <<Message("system", get_system_prompt(mood, length))>>
    \o [i \in 1..(2 * Len(chat_history)) |->
          IF i % 2 = 1
          THEN Message("user", chat_history[(i + 1) \div 2][1])
          ELSE Message("assistant", chat_history[i \div 2][2])]
    \o <<Message("user", message)>>

\* what the provider does with one request: a first choice, or an exception
Outcomes ==
    { [ok |-> TRUE, text |-> <<"Hi there!">>],
      [ok |-> FALSE, text |-> <<"Connection error.">>] }

\* without the except clause of lines 52-53
query_openai_raises(outcome) ==
    [raised |-> ~outcome.ok, value |-> outcome.text]

\* lines 45-53: how query_openai ends: it returns the first choice, or
\* catches the exception and returns the error text.  "raised" says whether
\* an exception leaves the function.
query_openai(outcome) ==
    IF outcome.ok
    THEN [raised |-> FALSE, value |-> outcome.text]
    ELSE [raised |-> FALSE, value |-> <<"OpenAI API Error: ">> \o outcome.text]

\* the request of lines 46-50 with what the provider did with it; "for" is
\* the position in the batch of the file the call is made for (0: not for
\* a file)
Request(message, chat_history, mood, length, k, outcome) ==
    [ model |-> OPENAI_MODEL,
      messages |-> BuildMessages(message, chat_history, mood, length),
      temperature |-> "0.7",
      for |-> k,
      outcome |-> outcome ]

-----------------------------------------------------------------------------
(* respond *)

UserTexts == { <<"Hello">> }
Timestamps == { "10:00:00", "10:00:01" }

Stamp(text, timestamp) == text \o <<" (", timestamp, ")">>

\* line 60: the turn respond appends
ChatTurn(message, bot_reply, timestamp) ==
    <<Stamp(message, timestamp), Stamp(bot_reply, timestamp)>>

\* what a handler leaves behind: the handler, its inputs, and the length of
\* the conversation it found
Ran(op, message, files) ==
    [op |-> op, message |-> message, files |-> files, turns |-> Len(state)]

NoOutput == [value |-> <<>>, written |-> <<>>]

\* the new turn put first
RespondPrepends(message, mood, length, timestamp, outcome) ==
    /\ LET bot_reply == query_openai(outcome)
           history == <<ChatTurn(message, bot_reply.value, timestamp)>> \o state
       IN /\ state' = history
          /\ chatbot' = history
    /\ calls' = <<Request(message, state, mood, length, 0, outcome)>>
    /\ last' = Ran("respond", message, <<>>)
    /\ out' = NoOutput
    /\ UNCHANGED concVars

\* lines 56-61; an exception leaving query_openai would leave respond before
\* line 60, and Gradio then updates no output
Respond(message, mood, length, timestamp, outcome) ==
    /\ LET bot_reply == query_openai(outcome)
           history == Append(state, ChatTurn(message, bot_reply.value, timestamp))
       IN IF bot_reply.raised
          THEN UNCHANGED <<state, chatbot>>
          ELSE /\ state' = history
               /\ chatbot' = history
    /\ calls' = <<Request(message, state, mood, length, 0, outcome)>>
    /\ last' = Ran("respond", message, <<>>)
    /\ out' = NoOutput
    /\ UNCHANGED concVars

-----------------------------------------------------------------------------
(* Uploaded files *)

\* An uploaded file: its name (one token per character), whether opening,
\* decoding and parsing it succeeds (and the exception text when not), and
\* what it holds: "len" characters of text, a table of "rows" by "cols", or
\* pages of "pages[p]" characters each.
File(name, ok, err, len, rows, cols, pages) ==
    [name |-> name, ok |-> ok, err |-> err, len |-> len,
     rows |-> rows, cols |-> cols, pages |-> pages]

TextFile(len) == File(<<"a", ".", "t", "x", "t">>, TRUE, <<>>, len, 0, 0, <<>>)
CsvFile(rows, cols) == File(<<"b", ".", "c", "s", "v">>, TRUE, <<>>, 0, rows, cols, <<>>)
PdfFile(pages) == File(<<"c", ".", "p", "d", "f">>, TRUE, <<>>, 0, 0, 0, pages)
BrokenFile(name, err) == File(name, FALSE, <<err>>, 0, 0, 0, <<>>)
OtherFile(name) == File(name, TRUE, <<>>, 7, 0, 0, <<>>)

\* str.lower of a character of a name
Lower(c) ==
    CASE c = "T" -> "t" [] c = "X" -> "x" [] c = "C" -> "c" [] c = "S" -> "s"
      [] c = "V" -> "v" [] c = "P" -> "p" [] c = "D" -> "d" [] c = "F" -> "f"
      [] OTHER -> c

\* the suffix matched whatever the case
IsTxtAnyCase(file) ==
    EndsWith([i \in 1..Len(file.name) |-> Lower(file.name[i])], <<".", "t", "x", "t">>)

IsTxt(file) == EndsWith(file.name, <<".", "t", "x", "t">>)
IsCsv(file) == EndsWith(file.name, <<".", "c", "s", "v">>)
IsPdf(file) == EndsWith(file.name, <<".", "p", "d", "f">>)

-----------------------------------------------------------------------------
(* process_file: the .txt branch *)

\* lines 69-71
TxtContent(file) == Prefix(Chars(1, file.len), ExcerptLimit)

\* the note at the limit too
TxtNoteAtLimit(file) ==
    IF file.len >= ExcerptLimit THEN <<"\n\n[Note: Text was truncated.]">> ELSE <<>>

TxtNote(file) ==
    IF file.len > ExcerptLimit THEN <<"\n\n[Note: Text was truncated.]">> ELSE <<>>

\* line 72
TxtPrompt(file) ==
    <<"Analyze this text file:\n\n">> \o TxtContent(file) \o TxtNote(file)

-----------------------------------------------------------------------------
(* process_file: the .csv branch.  The data frame has columns c1, c2, ...  *)
(* of text cells "v"; to_string lays a table out as lines of right-aligned *)
(* cells, one space apart.                                                 *)

ColName(j) == <<"c", ToString(j)>>
Cell == <<" ", "v">>

TableLine(cells) == Join(cells, <<" ">>)
Table(lines) == Join(lines, <<"\n">>)

\* df.head(n).to_string(index=False)
HeadToString(file, n) ==
    Table(<<TableLine([j \in 1..file.cols |-> ColName(j)])>>
          \o [r \in 1..Min(file.rows, n) |-> TableLine([j \in 1..file.cols |-> Cell])])

\* df.describe(include='all').to_string(): count, unique, top and freq of
\* every column, under a header line, each line led by its label
DescribeLine(label, value, file) ==
    label \o <<" ">> \o TableLine([j \in 1..file.cols |-> <<" ", value>>])

DescribeToString(file) ==
    Table(<< DescribeLine(<<" ", " ", " ", " ", " ", " ">>, "c", file),
             DescribeLine(<<"count", " ">>, ToString(file.rows), file),
             DescribeLine(<<"unique">>, "1", file),
             DescribeLine(<<"top", " ", " ", " ">>, "v", file),
             DescribeLine(<<"freq", " ", " ">>, ToString(file.rows), file) >>)

\* lines 76-82
CsvPrompt(file) ==
    <<"This CSV file has ", ToString(file.rows), " rows and ",
      ToString(file.cols), " columns.\n\n", "Columns: ">>
    \o Join([j \in 1..file.cols |-> ColName(j)], <<",", " ">>)
    \o <<"\n\nSample rows:\n">> \o HeadToString(file, HeadRows)
    \o <<"\n\nStats:\n">> \o DescribeToString(file)

-----------------------------------------------------------------------------
(* process_file: the .pdf branch *)

\* lines 86-91: pages are read until the text exceeds the limit
RECURSIVE PdfLoop(_, _, _)
PdfLoop(file, p, text) ==
    IF p > Len(file.pages) THEN text
    ELSE LET more == text \o Chars(Len(text) + 1, file.pages[p])
         IN IF Len(more) > ExcerptLimit
            THEN Prefix(more, ExcerptLimit)
            ELSE PdfLoop(file, p + 1, more)

PdfText(file) == PdfLoop(file, 1, <<>>)

\* line 92
PdfPrompt(file) ==
    <<"Analyze this PDF content:\n\n">> \o PdfText(file)
    \o <<"\n\n[Note: PDF content was truncated.]">>

-----------------------------------------------------------------------------
(* process_file *)

Supported(file) == IsTxt(file) \/ IsCsv(file) \/ IsPdf(file)

\* the dispatch of lines 67, 74, 84
Prompt(file) ==
    IF IsTxt(file) THEN TxtPrompt(file)
    ELSE IF IsCsv(file) THEN CsvPrompt(file)
    ELSE PdfPrompt(file)

\* line 95
UnsupportedTurn(file) ==
    << <<"[Unsupported file: ">> \o file.name \o <<"]">>,
       <<"Only .txt, .csv, or .pdf are supported.">> >>

\* line 99
UploadTurn(file, response) ==
    << <<"[Uploaded file: ">> \o file.name \o <<"]">>, response >>

\* line 104
ReadError(file) == <<"Error reading file(s): ">> \o file.err

\* lines 65-104: the loop from the k-th file on; outcomes[k] is what the
\* provider does with the call for the k-th file, made is the calls so far
\* a file that cannot be read is passed over and the loop goes on
RECURSIVE ReadPastFailures(_, _, _)
ReadPastFailures(files, k, chat_history) ==
    IF k > Len(files)
    THEN [history |-> chat_history, at |-> 0, msg |-> <<>>]
    ELSE IF ~Supported(files[k])
    THEN ReadPastFailures(files, k + 1, Append(chat_history, UnsupportedTurn(files[k])))
    ELSE IF ~files[k].ok
    THEN ReadPastFailures(files, k + 1, chat_history)
    ELSE [history |-> chat_history, at |-> k, msg |-> <<>>]

\* lines 66-96: the loop from the k-th file up to its next provider call.
\* "at" is the file that call is for; 0 when the loop returns without one, with
\* "msg" the first value it returns.
RECURSIVE ReadUntilCall(_, _, _)
ReadUntilCall(files, k, chat_history) ==
    IF k > Len(files)
    THEN [history |-> chat_history, at |-> 0, msg |-> <<>>]
    ELSE IF ~Supported(files[k])
    THEN ReadUntilCall(files, k + 1, Append(chat_history, UnsupportedTurn(files[k])))
    ELSE IF ~files[k].ok
    THEN [history |-> chat_history, at |-> 0, msg |-> ReadError(files[k])]
    ELSE [history |-> chat_history, at |-> k, msg |-> <<>>]

\* lines 65-104: the loop from the k-th file on; outcomes[k] is what the
\* provider does with the call for the k-th file, made is the calls so far.
\* Line 103 would catch an exception leaving query_openai as it catches one
\* of a file.
RECURSIVE ProcessLoop(_, _, _, _, _, _, _)
ProcessLoop(files, outcomes, k, chat_history, made, mood, length) ==
    LET read == ReadUntilCall(files, k, chat_history) IN
    IF read.at = 0
    THEN [history |-> read.history, calls |-> made, msg |-> read.msg]
    ELSE LET file == files[read.at]
             request == Request(Prompt(file), read.history, mood, length,
                                read.at, outcomes[read.at])
             response == query_openai(outcomes[read.at])
         IN IF response.raised
            THEN [history |-> read.history, calls |-> Append(made, request),
                  msg |-> <<"Error reading file(s): ">> \o response.value]
            ELSE ProcessLoop(files, outcomes, read.at + 1,
                             Append(read.history, UploadTurn(file, response.value)),
                             Append(made, request), mood, length)

ProcessFile(files, outcomes, mood, length) ==
    /\ LET done == ProcessLoop(files, outcomes, 1, state, <<>>, mood, length)
       IN /\ state' = done.history
          /\ chatbot' = done.history
          /\ calls' = done.calls
          /\ out' = [value |-> done.msg, written |-> <<>>]
    /\ last' = Ran("process_file", <<>>, files)
    /\ UNCHANGED concVars

-----------------------------------------------------------------------------
(* preview_file *)

\* lines 111-121: the preview of one file that can be read
Preview(file) ==
    IF IsTxt(file) THEN Prefix(Chars(1, file.len), PreviewLimit)
    ELSE IF IsCsv(file) THEN HeadToString(file, PreviewRows)
    ELSE IF IsPdf(file) THEN Prefix(Chars(1, file.pages[1]), PreviewLimit)
    ELSE <<"Unsupported file.">>

\* doc[0] of a document without pages raises as a file that cannot be read does
PreviewFails(file) ==
    Supported(file) /\ (~file.ok \/ (IsPdf(file) /\ Len(file.pages) = 0))

PreviewError(file) ==
    <<"Error: ">> \o (IF file.ok THEN <<"page not in document">> ELSE file.err)

\* lines 108-123
RECURSIVE PreviewLoop(_, _, _)
PreviewLoop(files, k, previews) ==
    IF k > Len(files) THEN previews
    ELSE IF PreviewFails(files[k]) THEN Append(previews, PreviewError(files[k]))
    ELSE PreviewLoop(files, k + 1, Append(previews, Preview(files[k])))

preview_file(files) == Join(PreviewLoop(files, 1, <<>>), <<"\n---\n">>)

PreviewFile(files) ==
    /\ out' = [value |-> preview_file(files), written |-> <<>>]
    /\ calls' = <<>>
    /\ last' = Ran("preview_file", <<>>, files)
    /\ UNCHANGED <<state, chatbot>>
    /\ UNCHANGED concVars

-----------------------------------------------------------------------------
(* summarize_chat *)

\* line 128
Transcript(chat_history) ==
    Join([i \in 1..Len(chat_history) |->
            <<"User: ">> \o chat_history[i][1] \o <<"\nBot: ">> \o chat_history[i][2]],
         <<"\n">>)

\* line 129
SummaryPrompt(chat_history) ==
    <<"Summarize this conversation:\n\n">> \o Transcript(chat_history)

\* line 130
\* the conversation passed as the history of the call
SummaryRequestWithHistory(chat_history, outcome) ==
    Request(SummaryPrompt(chat_history), chat_history, "Professional", 2, 0, outcome)

SummaryRequest(chat_history, outcome) ==
    Request(SummaryPrompt(chat_history), <<>>, "Professional", 2, 0, outcome)

\* lines 127-131; an exception leaving query_openai would leave the summary
\* box as it was (here: empty)
SummarizeChat(outcome) ==
    /\ calls' = <<SummaryRequest(state, outcome)>>
    /\ LET summary == query_openai(outcome)
       IN out' = [value |-> IF summary.raised THEN <<>> ELSE summary.value,
                  written |-> <<>>]
    /\ last' = Ran("summarize_chat", <<>>, <<>>)
    /\ UNCHANGED <<state, chatbot>>
    /\ UNCHANGED concVars

-----------------------------------------------------------------------------
(* download_chat *)

\* lines 138-139
RECURSIVE ExportBody(_)
ExportBody(chat_history) ==
    IF Len(chat_history) = 0 THEN <<>>
    ELSE <<"User: ">> \o chat_history[1][1] \o <<"\nBot: ">> \o chat_history[1][2]
         \o <<"\n\n">> \o ExportBody(Tail(chat_history))

DownloadChat(now) ==
    /\ out' = [value |-> <<"chat_history_", now, ".txt">>, written |-> ExportBody(state)]
    /\ calls' = <<>>
    /\ last' = Ran("download_chat", <<>>, <<>>)
    /\ UNCHANGED <<state, chatbot>>
    /\ UNCHANGED concVars

-----------------------------------------------------------------------------
(* clear.click *)

\* only the transcript is emptied
ClearTranscriptOnly ==
    /\ chatbot' = <<>>
    /\ calls' = <<>>
    /\ last' = Ran("clear", <<>>, <<>>)
    /\ out' = NoOutput
    /\ UNCHANGED state
    /\ UNCHANGED concVars

Clear ==
    /\ state' = <<>>
    /\ chatbot' = <<>>
    /\ calls' = <<>>
    /\ last' = Ran("clear", <<>>, <<>>)
    /\ out' = NoOutput
    /\ UNCHANGED concVars

-----------------------------------------------------------------------------
(* The inputs of a session *)

Docx == OtherFile(<<"d", ".", "d", "o", "c", "x">>)
UpperTxt == OtherFile(<<"e", ".", "T", "X", "T">>)
BrokenPdf == BrokenFile(<<"f", ".", "p", "d", "f">>, "cannot open broken document")
BrokenTxt == BrokenFile(<<"g", ".", "t", "x", "t">>, "invalid start byte")

SessionFiles == { TextFile(100), Docx, BrokenPdf }

\* the non-empty batches of at most n files of S
Batches(S, n) == UNION { [1..m -> S] : m \in 1..n }

\* what the provider does with the calls of a batch, file by file; a file
\* that gets no call has no outcome to vary
Answered == [ok |-> TRUE, text |-> <<"Hi there!">>]

OutcomesFor(files) ==
    { outcomes \in [1..Len(files) -> Outcomes] :
         \A k \in 1..Len(files) :
            (~Supported(files[k]) \/ ~files[k].ok) => outcomes[k] = Answered }

ExportStamps == { "20240101_100000" }

-----------------------------------------------------------------------------
Init ==
    /\ state = <<>>
    /\ chatbot = <<>>
    /\ calls = <<>>
    /\ last = [op |-> "init", message |-> <<>>, files |-> <<>>, turns |-> 0]
    /\ out = NoOutput
    /\ heap = << <<>> >>
    /\ store = 1
    /\ respondJob = <<>>
    /\ uploadJob = <<>>

\* A session: every handler, run to completion
Send ==
    \E message \in UserTexts, persona \in Personas,
       timestamp \in Timestamps, outcome \in Outcomes :
       /\ Len(state) < MaxTurns
       /\ Respond(message, persona[1], persona[2], timestamp, outcome)

Upload ==
    \E files \in Batches(SessionFiles, MaxBatch) :
    \E outcomes \in OutcomesFor(files), persona \in Personas :
       /\ Len(state) + Len(files) <= MaxTurns
       /\ ProcessFile(files, outcomes, persona[1], persona[2])

ShowPreview == \E files \in Batches(SessionFiles, MaxBatch) : PreviewFile(files)

Summarize == \E outcome \in Outcomes : SummarizeChat(outcome)

Download == \E now \in ExportStamps : DownloadChat(now)

Next == Send \/ Upload \/ ShowPreview \/ Summarize \/ Download \/ Clear

Spec == Init /\ [][Next]_vars

-----------------------------------------------------------------------------
(* Uploads of batches *)

UploadFiles == { TextFile(100), UpperTxt, BrokenPdf }

UploadPersonas == { <<"Friendly", 2>> }

BatchUpload ==
    \E files \in Batches(UploadFiles, UploadBatch) :
    \E outcomes \in OutcomesFor(files), persona \in UploadPersonas :
       /\ Len(state) <= UploadHistory
       /\ ProcessFile(files, outcomes, persona[1], persona[2])

NextUpload == BatchUpload \/ Clear

SpecUpload == Init /\ [][NextUpload]_vars

-----------------------------------------------------------------------------
(* Uploads of one document, over the documents' sizes *)

TxtSizes == { 0, 100, 2999, 3000, 3001, 4000, 5000 }
CsvRows == { 1, 5, 6 }
CsvCols == { 1, 3, 200 }
PdfPages ==
    { <<>>, <<100>>, <<3000>>, <<3001>>, <<1500, 1500>>, <<1500, 1600, 700>>,
      <<2000, 2000>>, <<0, 3500>> }

ExtractFiles ==
    { TextFile(len) : len \in TxtSizes }
    \cup { CsvFile(rows, cols) : rows \in CsvRows, cols \in CsvCols }
    \cup { PdfFile(pages) : pages \in PdfPages }
    \cup { BrokenTxt }

ExtractUpload ==
    \E file \in ExtractFiles, outcome \in Outcomes, persona \in UploadPersonas :
       /\ Len(state) < ExtractTurns
       /\ ProcessFile(<<file>>, <<outcome>>, persona[1], persona[2])

NextExtract == ExtractUpload \/ Clear

SpecExtract == Init /\ [][NextExtract]_vars

-----------------------------------------------------------------------------
(* Handlers that overlap.  Lines 168-173 register each handler as a        *)
(* listener of its own and set no lock, no shared concurrency limit and no *)
(* ordering between them, so Gradio starts a listener's handler while that *)
(* of another listener waits for the provider.  At most one run of each    *)
(* listener is in flight here.  The conversation is the list object        *)
(* gr.State refers to: heap[store].  A handler keeps the list it was given *)
(* (lines 60, 95, 99 append to it in place); clear.click gives gr.State a  *)
(* new list (line 171).                                                    *)

ConcFiles == { TextFile(100), Docx }
ConcStamps == { "10:00:00" }

\* respond, lines 57-59, up to the request of line 46
RespondStart(message, mood, length, timestamp) ==
    /\ respondJob = <<>>
    /\ respondJob' = << [ list |-> store, message |-> message,
                          timestamp |-> timestamp,
                          messages |-> BuildMessages(message, heap[store], mood, length) ] >>
    /\ UNCHANGED <<heap, store, uploadJob, seqVars>>

\* respond, lines 51-61, from the provider's answer on
RespondFinish(outcome) ==
    /\ respondJob # <<>>
    /\ LET job == respondJob[1]
           bot_reply == query_openai(outcome)
           history == Append(heap[job.list],
                             ChatTurn(job.message, bot_reply.value, job.timestamp))
       IN /\ heap' = [heap EXCEPT ![job.list] = history]
          /\ chatbot' = history
    /\ respondJob' = <<>>
    /\ UNCHANGED <<store, uploadJob, state, calls, last, out>>

\* process_file, from the k-th file of the batch to its next provider call
\* or to its return
UploadRun(list, files, k, chat_history, mood, length) ==
    LET read == ReadUntilCall(files, k, chat_history) IN
    /\ heap' = [heap EXCEPT ![list] = read.history]
    /\ IF read.at = 0
       THEN /\ uploadJob' = <<>>
            /\ chatbot' = read.history
            /\ out' = [value |-> read.msg, written |-> <<>>]
       ELSE /\ uploadJob' = << [ list |-> list, files |-> files, at |-> read.at,
                                 mood |-> mood, length |-> length,
                                 messages |-> BuildMessages(Prompt(files[read.at]),
                                                            read.history, mood, length) ] >>
            /\ UNCHANGED <<chatbot, out>>
    /\ UNCHANGED <<store, respondJob, state, calls, last>>

UploadStart(files, mood, length) ==
    /\ uploadJob = <<>>
    /\ UploadRun(store, files, 1, heap[store], mood, length)

\* process_file, lines 98-99, from the provider's answer on
UploadContinue(outcome) ==
    /\ uploadJob # <<>>
    /\ LET job == uploadJob[1]
           response == query_openai(outcome)
       IN UploadRun(job.list, job.files, job.at + 1,
                    Append(heap[job.list], UploadTurn(job.files[job.at], response.value)),
                    job.mood, job.length)

\* clear.click, line 171
ClearStore ==
    /\ heap' = Append(heap, <<>>)
    /\ store' = Len(heap) + 1
    /\ chatbot' = <<>>
    /\ UNCHANGED <<respondJob, uploadJob, state, calls, last, out>>

SendStart ==
    \E message \in UserTexts, persona \in UploadPersonas, timestamp \in ConcStamps :
       /\ Len(heap[store]) < ConcTurns
       /\ RespondStart(message, persona[1], persona[2], timestamp)

SendFinish == \E outcome \in Outcomes : RespondFinish(outcome)

BatchStart ==
    \E files \in Batches(ConcFiles, MaxBatch), persona \in UploadPersonas :
       /\ Len(heap[store]) + Len(files) <= ConcTurns
       /\ UploadStart(files, persona[1], persona[2])

BatchContinue == \E outcome \in Outcomes : UploadContinue(outcome)

Reset == Len(heap) < MaxLists /\ ClearStore

NextConc == SendStart \/ SendFinish \/ BatchStart \/ BatchContinue \/ Reset

SpecConc == Init /\ [][NextConc]_vars

-----------------------------------------------------------------------------
(* Properties of a session whose handlers run to completion (Spec) *)

\* the last message of a request: the prompt
PromptOf(call) == call.messages[Len(call.messages)].content

\* C1: every step leaves the conversation as it is, appends turns to it with
\* every earlier turn unchanged at its position, or (clear only) empties it.
C1_PastTurnsKept ==
    [][ \/ state' = state
        \/ /\ Len(state') > Len(state)
           /\ SubSeq(state', 1, Len(state)) = state
           /\ last'.op \in {"respond", "process_file"}
        \/ /\ last'.op = "clear"
           /\ state' = <<>> ]_vars

\* a respond has appended a turn to a conversation of two turns
C1_Witness ==
    /\ last.op = "respond"
    /\ last.turns = 2
    /\ Len(state) = 3

ErrorText(outcome) == <<"OpenAI API Error: ">> \o outcome.text

IsErrorTurn(turn) == turn[2][1] = "OpenAI API Error: "

TurnsBefore(call) == IF call.for = 0 THEN last.turns ELSE last.turns + call.for - 1

\* C5: a request made over a conversation of n turns holds 2n+2 messages: one
\* system message, each of the n turns in order as a user and an assistant
\* message with the turn's two texts, and last the new user message.
C5_WholeHistorySent ==
    last.op \in {"respond", "process_file"} =>
        \A c \in 1..Len(calls) :
           LET n == TurnsBefore(calls[c])
               m == calls[c].messages
           IN /\ Len(m) = 2 * n + 2
              /\ m[1].role = "system"
              /\ \A j \in 2..Len(m) : m[j].role # "system"
              /\ \A i \in 1..n :
                    /\ m[2 * i] = [role |-> "user", content |-> state[i][1]]
                    /\ m[2 * i + 1] = [role |-> "assistant", content |-> state[i][2]]
              /\ m[2 * n + 2].role = "user"
              /\ last.op = "respond" => m[2 * n + 2].content = last.message

\* a respond over a conversation of two turns sent six messages
C5_Witness ==
    /\ last.op = "respond"
    /\ last.turns = 2
    /\ Len(calls[1].messages) = 6

ProfessionalBalanced ==
    << "You are a formal and knowledgeable assistant.", " ",
       "Give balanced and informative answers." >>

\* C6: summarize_chat makes one request of two messages, the system message of
\* the Professional / 2 persona and one user message that starts with the
\* summarize instruction, and leaves conversation and transcript as they
\* are; a respond that follows sends the conversation summarize_chat found.
C6_SummarizeOneShot ==
    [][ /\ last'.op = "summarize_chat" =>
              /\ state' = state
              /\ chatbot' = chatbot
              /\ Len(calls') = 1
              /\ Len(calls'[1].messages) = 2
              /\ calls'[1].messages[1] = [role |-> "system", content |-> ProfessionalBalanced]
              /\ calls'[1].messages[2].role = "user"
              /\ calls'[1].messages[2].content[1] = "Summarize this conversation:\n\n"
              /\ Len(calls'[1].messages[2].content) > 1 <=> Len(state) > 0
        /\ (last.op = "summarize_chat" /\ last'.op = "respond") =>
              /\ Len(calls'[1].messages) = 2 * last.turns + 2
              /\ SubSeq(state', 1, last.turns) = state ]_vars

\* a conversation of two turns has been summarized
C6_Witness ==
    /\ last.op = "summarize_chat"
    /\ Len(state) = 2
    /\ Len(calls) = 1

\* C7: clear empties the conversation and the transcript in one step, and the
\* respond that follows sends the system message and the new user message
\* only and leaves a conversation of one turn.
C7_ResetForgets ==
    [][ /\ last'.op = "clear" => (state' = <<>> /\ chatbot' = <<>>)
        /\ (last.op = "clear" /\ last'.op = "respond") =>
              /\ Len(calls'[1].messages) = 2
              /\ calls'[1].messages[1].role = "system"
              /\ calls'[1].messages[2] = [role |-> "user", content |-> last'.message]
              /\ Len(state') = 1 ]_vars

\* a conversation of two turns or more has been cleared
C7_Witness ==
    /\ last.op = "clear"
    /\ last.turns >= 2
    /\ state = <<>>
    /\ chatbot = <<>>

-----------------------------------------------------------------------------
(* Properties of an upload of a batch (SpecUpload) *)

\* the name does not end with exactly .txt, .csv or .pdf
NameUnsupported(file) ==
    \/ Len(file.name) < 4
    \/ SubSeq(file.name, Len(file.name) - 3, Len(file.name))
          \notin { <<".", "t", "x", "t">>, <<".", "c", "s", "v">>, <<".", "p", "d", "f">> }

Rejection == <<"Only .txt, .csv, or .pdf are supported.">>

\* the first file of the batch whose read fails; 0 when none does
FirstFailure(files) ==
    LET failing == { k \in 1..Len(files) : ~NameUnsupported(files[k]) /\ ~files[k].ok }
    IN IF failing = {} THEN 0
       ELSE CHOOSE k \in failing : \A j \in failing : k <= j

\* the files of the batch the loop gets to read or to reject
Reached(files) ==
    IF FirstFailure(files) = 0 THEN Len(files) ELSE FirstFailure(files) - 1

Count(S) == Cardinality(S)

\* C3 as stated: every file of the batch with an unsupported name gets no
\* request and exactly one turn with the fixed rejection text.
C3_EveryUnsupportedFileRejected ==
    [][ last'.op = "process_file" =>
          LET files == last'.files
              new == SubSeq(state', Len(state) + 1, Len(state'))
          IN /\ \A c \in 1..Len(calls') : ~NameUnsupported(files[calls'[c].for])
             /\ Count({ i \in 1..Len(new) : new[i][2] = Rejection })
                  = Count({ k \in 1..Len(files) : NameUnsupported(files[k]) }) ]_vars

\* C3, amended: every file with an unsupported name that no failed read
\* precedes in the batch gets no request and exactly one turn, at its place
\* among the batch's turns, with the fixed rejection text; the files after it
\* are processed.
C3_ReachedUnsupportedFileRejected ==
    [][ last'.op = "process_file" =>
          LET files == last'.files
              n == Len(state)
          IN /\ Len(state') = n + Reached(files)
             /\ \A c \in 1..Len(calls') : ~NameUnsupported(files[calls'[c].for])
             /\ \A k \in 1..Reached(files) :
                   NameUnsupported(files[k]) =>
                      /\ state'[n + k][2] = Rejection
                      /\ state'[n + k][1] = <<"[Unsupported file: ">> \o files[k].name \o <<"]">>
                      /\ \A c \in 1..Len(calls') : calls'[c].for # k
             /\ \A k \in 1..Reached(files) :
                   ~NameUnsupported(files[k]) =>
                      /\ state'[n + k][2] # Rejection
                      /\ \E c \in 1..Len(calls') : calls'[c].for = k ]_vars

\* a batch of three whose first file is unsupported and whose last is analysed
C3_Witness ==
    /\ last.op = "process_file"
    /\ Len(last.files) = 3
    /\ NameUnsupported(last.files[1])
    /\ last.files[1].name = <<"e", ".", "T", "X", "T">>
    /\ Reached(last.files) = 3
    /\ \E c \in 1..Len(calls) : calls[c].for = 3
    /\ Len(state) = last.turns + 3

\* C4: when the read of the k-th file fails, the turns of the files before it
\* are appended and stay, the k-th and later files get neither a turn nor a
\* request, and the handler returns the exception text.
C4_FailedReadEndsBatch ==
    [][ (last'.op = "process_file" /\ FirstFailure(last'.files) # 0) =>
          LET files == last'.files
              k == FirstFailure(files)
              n == Len(state)
          IN /\ Len(state') = n + k - 1
             /\ SubSeq(state', 1, n) = state
             /\ \A i \in 1..(k - 1) :
                   state'[n + i][1] \in
                      { <<"[Uploaded file: ">> \o files[i].name \o <<"]">>,
                        <<"[Unsupported file: ">> \o files[i].name \o <<"]">> }
             /\ \A c \in 1..Len(calls') : calls'[c].for < k
             /\ out'.value = <<"Error reading file(s): ">> \o files[k].err
             /\ chatbot' = state' ]_vars

\* the second file of a batch of three failed, after a turn of an earlier upload
C4_Witness ==
    /\ last.op = "process_file"
    /\ Len(last.files) = 3
    /\ FirstFailure(last.files) = 2
    /\ ~NameUnsupported(last.files[1])
    /\ last.turns = 1
    /\ Len(state) = 2
    /\ Len(calls) = 1

-----------------------------------------------------------------------------
(* Properties of what is extracted from one document (SpecExtract) *)

\* the first n characters of a document
FirstChars(n) == [i \in 1..n |-> ToString(i)]

\* the file whose read the last upload got to, when it is a .txt file
TxtUploaded ==
    /\ last.op = "process_file"
    /\ Len(last.files) = 1
    /\ EndsWith(last.files[1].name, <<".", "t", "x", "t">>)
    /\ last.files[1].ok

\* C8: the prompt of a .txt file of L characters holds exactly its first
\* min(L, 3000) characters, and ends with the truncation note if and only if
\* L > 3000.
C8_TxtExcerpt ==
    TxtUploaded =>
        /\ Len(calls) = 1
        /\ LET prompt == PromptOf(calls[1])
               L == last.files[1].len
               keep == IF L < 3000 THEN L ELSE 3000
           IN /\ prompt[1] = "Analyze this text file:\n\n"
              /\ Len(prompt) = 1 + keep + (IF L > 3000 THEN 1 ELSE 0)
              /\ SubSeq(prompt, 2, keep + 1) = FirstChars(keep)
              /\ L > 3000 => prompt[Len(prompt)] = "\n\n[Note: Text was truncated.]"

\* a .txt file of exactly 3000 characters has been uploaded
C8_Witness ==
    /\ TxtUploaded
    /\ last.files[1].len = 3000
    /\ Len(PromptOf(calls[1])) = 3001

\* the tokens of a prompt that come from the document: all but the literals
\* the branch wraps around them
DocumentTokens(file, prompt) ==
    IF EndsWith(file.name, <<".", "t", "x", "t">>)
    THEN Len(prompt) - 1 - (IF prompt[Len(prompt)] = "\n\n[Note: Text was truncated.]" THEN 1 ELSE 0)
    ELSE IF EndsWith(file.name, <<".", "c", "s", "v">>)
    THEN Len(prompt) - 6
    ELSE Len(prompt) - 2

\* C9: what is extracted from a document of any of the three formats and put
\* in a prompt is at most 3000 characters long.
C9_ExcerptBounded ==
    last.op = "process_file" =>
        \A c \in 1..Len(calls) :
           DocumentTokens(last.files[calls[c].for], PromptOf(calls[c])) <= 3000

-----------------------------------------------------------------------------
(* Properties of handlers that overlap (SpecConc) *)

\* C10: no two handlers of a session that use the conversation are in flight
\* together, and while a handler waits for the provider, between its read of
\* the conversation and its append, no other handler changes the list it
\* read or gives gr.State another list.
C10_OneHandlerAtATime ==
    /\ [](respondJob = <<>> \/ uploadJob = <<>>)
    /\ [][ /\ (respondJob # <<>> /\ respondJob' = respondJob) =>
                 /\ store' = store
                 /\ heap'[respondJob[1].list] = heap[respondJob[1].list]
           /\ (uploadJob # <<>> /\ uploadJob' = uploadJob) =>
                 /\ store' = store
                 /\ heap'[uploadJob[1].list] = heap[uploadJob[1].list] ]_vars
====
